---- MODULE Spec2Model ----
(***************************************************************************)
(* AllGather-GEMM overlap engine of                                        *)
(* python/triton_dist/kernels/nvidia/allgather_gemm.py.                    *)
(*                                                                         *)
(* Spec        the per-invocation protocol on every rank: publish step     *)
(*             (local copy, flag reset, barrier handshakes), transport,    *)
(*             GEMM units polling the readiness flags, context reuse.      *)
(* SpecTiles   the tile schedulers of the two GEMM kernels as functions of *)
(*             the launch parameters.                                      *)
(* SpecLoop    the iteration loop of one persistent-kernel launch.         *)
(* SpecCreate  construction of (inter-node) contexts.                      *)
(*                                                                         *)
(* Data is abstracted to its identity: the contents of a block of rows of  *)
(* shard s is the number of the invocation whose A-shard was copied there  *)
(* (0: never written); an output tile is the set of identities of the      *)
(* blocks its stored rows were computed from.                              *)
(***************************************************************************)
EXTENDS Integers, Sequences, FiniteSets, TLC

VARIABLES
    cfg,      \* the call shape and matrix shape of this run
    phase,    \* [rank -> ctx.phase]
    calls,    \* [rank -> number of invocations started on the rank's context]
    kinds,    \* [invocation number -> kind of inputs of a collective call under way]
    input,    \* [rank -> kind of the inputs of the rank's latest invocation]
    pc,       \* [rank -> stage of the rank's current invocation]
    seen,     \* [rank -> sync slots the handshake in progress has observed]
    blk,      \* [rank -> [copy block -> stage of that block of the publish kernel]]
    sync,     \* [rank -> [slot -> value]]   ctx.comm_buf
    nvb,      \* [rank -> number of nvshmem barriers the rank has arrived at]
    flag,     \* [rank -> [slot -> value]]   ctx.barrier_tensors[local_rank]
    ws,       \* [rank -> [shard -> [copy block -> data identity]]]  workspace slab
    agpos,    \* [rank -> position of the all-gather stream in its transfer list]
    gemm,     \* [rank -> [unit -> state of the GEMM scheduling unit]]
    out,      \* [rank -> [output tile -> data identities it was computed from]]
    tp,       \* SpecTiles: the launch under examination
    lp,       \* SpecLoop: the state of one persistent-kernel launch
    cc        \* SpecCreate: the context under construction / in use

vars == <<cfg, phase, calls, kinds, input, pc, seen, blk, sync, nvb, flag, ws, agpos, gemm, out, tp, lp, cc>>

protoVars == <<cfg, phase, calls, kinds, input, pc, seen, blk, sync, nvb, flag, ws, agpos, gemm, out>>

(***************************************************************************)
(* Bounds of the model.                                                    *)
(***************************************************************************)
NumRanks == 2
MaxCalls == 3
NumSMs == 2
UBMax == 1

(***************************************************************************)
(* Program constants.                                                      *)
(***************************************************************************)
COPY_BLOCK_SIZE_M == 128
COPY_BLOCK_SIZE_N == 256
BLOCK_M == 128
BLOCK_N == 256
GROUP_SIZE_M == 8
LOCAL_WORLD_SIZE == 8
InitialPhase == 1
READY == 1
SET_SIGNAL_VALUE == 1
DEFAULT_READY_VALUE == 1

Ranks == 0 .. (NumRanks - 1)

CDiv(a, b) == (a + b - 1) \div b

Min(a, b) == IF a < b THEN a ELSE b

(***************************************************************************)
(* x % n as the kernel computes it; n = 0 is undefined behaviour, any      *)
(* result may come out.                                                    *)
(***************************************************************************)
ModUB(x, n) == IF n = 0 THEN 0 .. UBMax ELSE {x % n}

(***************************************************************************)
(* Tile scheduling of the two GEMM kernels.                                *)
(***************************************************************************)

\* a grouped ordering that takes every group to be full
GroupedTileFullGroups(pid, num_pid_m, num_pid_n, G) ==
    LET num_pid_in_group == G * num_pid_n
        group_id == pid \div num_pid_in_group
        first_pid_m == group_id * G
    IN  [pid_m |-> first_pid_m + ((pid % num_pid_in_group) % G),
         pid_n |-> (pid % num_pid_in_group) \div G]

\* kernel_consumer_gemm_non_persistent: grouped ordering of the program ids
GroupedTile(pid, num_pid_m, num_pid_n, G) ==
    LET num_pid_in_group == G * num_pid_n
        group_id == pid \div num_pid_in_group
        first_pid_m == group_id * G
        group_size_m == Min(num_pid_m - first_pid_m, G)
    IN  [pid_m |-> first_pid_m + ((pid % num_pid_in_group) % group_size_m),
         pid_n |-> (pid % num_pid_in_group) \div group_size_m]

\* kernel_consumer_gemm_non_persistent: "threadblock swizzle" of the row tile
RotatePidM(pid_m, rank, M, BM, W) ==
    LET num_pid_m == CDiv(M, BM)
        m_per_rank == M \div W
        m_offset == m_per_rank * rank
        pid_m_offset == CDiv(m_offset, BM)
    IN  (pid_m + pid_m_offset) % num_pid_m

NonPersistentTile(pid, M, N, BM, BN, G, rank, W) ==
    LET t == GroupedTile(pid, CDiv(M, BM), CDiv(N, BN), G)
    IN  [pid_m |-> RotatePidM(t.pid_m, rank, M, BM, W), pid_n |-> t.pid_n]

\* kernel_consumer_gemm_persistent: grouped ordering of the tile ids
PersistentGroupedTile(tile_id, num_pid_m, num_pid_n, G) ==
    LET num_pid_in_group == G * num_pid_n
        group_id == tile_id \div num_pid_in_group
        first_pid_m == group_id * G
        group_size_m == Min(num_pid_m - first_pid_m, G)
    IN  [pid_m |-> first_pid_m + (tile_id % group_size_m),
         pid_n |-> (tile_id % num_pid_in_group) \div group_size_m]

\* kernel_consumer_gemm_persistent: "swizzle m"; the set of row tiles the
\* build can produce (one, unless nnodes = 0)
PersistentSwizzle(pid_m, rank, num_ranks, M, BM, LWS) ==
    LET num_pid_m == CDiv(M, BM)
        node_id == rank \div LWS
        nnodes == num_ranks \div LWS
        M_per_rank == M \div num_ranks
        pid_ms_per_rank == CDiv(M_per_rank, BM)
    IN  IF nnodes = 1
        THEN {(pid_m + ((rank % num_ranks) * pid_ms_per_rank)) % num_pid_m}
        ELSE LET m_rank == pid_m \div pid_ms_per_rank
                 pid_m_intra_rank == pid_m - m_rank * pid_ms_per_rank
                 m_node_id == m_rank \div LWS
                 m_local_rank == m_rank % LWS
                 swizzle_m_local_rank == (m_local_rank + rank) % LWS
             IN  {(swizzle_m_node_id * LWS + swizzle_m_local_rank) * pid_ms_per_rank
                      + pid_m_intra_rank :
                  swizzle_m_node_id \in ModUB(m_node_id + node_id, nnodes)}

PersistentTiles(tile_id, M, N, BM, BN, G, rank, num_ranks, LWS) ==
    LET t == PersistentGroupedTile(tile_id, CDiv(M, BM), CDiv(N, BN), G)
    IN  {[pid_m |-> pm, pid_n |-> t.pid_n] :
         pm \in PersistentSwizzle(t.pid_m, rank, num_ranks, M, BM, LWS)}

\* both kernels: the flag slots a row tile waits on, rank_beg .. rank_end
RankBeg(offs_am, m_per_rank) == offs_am \div m_per_rank

\* a rank_end taken from the tile's nominal last row, not clamped to M
RankEndUnclamped(offs_am, BM, M, m_per_rank) == (offs_am + BM - 1) \div m_per_rank

RankEnd(offs_am, BM, M, m_per_rank) == (Min(offs_am + BM, M) - 1) \div m_per_rank

WaitSlots(pid_m, BM, M, m_per_rank) ==
    RankBeg(pid_m * BM, m_per_rank) .. RankEnd(pid_m * BM, BM, M, m_per_rank)

\* rows of the gathered A a unit of the non-persistent kernel loads
\* (offs_am, taken modulo M, no row mask on the load)
NonPersistentLoadRows(pid_m, BM, M) == {(pid_m * BM + i) % M : i \in 0 .. (BM - 1)}

\* rows of the gathered A a unit of the persistent kernel loads (a_desc has
\* shape [M, K]: rows outside it are filled, not read)
PersistentLoadRows(pid_m, BM, M) ==
    {row \in (pid_m * BM) .. (pid_m * BM + BM - 1) : row >= 0 /\ row < M}

\* rows of C a unit stores (c_mask / c_desc of shape [M, N])
StoreRows(pid_m, BM, M) ==
    {row \in (pid_m * BM) .. (pid_m * BM + BM - 1) : row >= 0 /\ row < M}

\* kernel_consumer_gemm_non_persistent: the row of A lane a of a tile loads
\* and the row of B (column of the product) lane b loads
OffsAm(pid_m, a, BM, M) == (pid_m * BM + a) % M

OffsBn(pid_n, b, BN, N) == (pid_n * BN + b) % N

\* a store mask that checks the columns only
CMaskColumnsOnly(offs_cm, offs_cn, M, N) == offs_cn < N

\* c_mask = (offs_cm[:, None] < M) & (offs_cn[None, :] < N)
CMask(offs_cm, offs_cn, M, N) == offs_cm < M /\ offs_cn < N

\* kernel_consumer_gemm_non_persistent: the elements of C a program stores,
\* each with the row of A and the row of B its accumulator lane was
\* computed from
NonPersistentStores(pid_m, pid_n, BM, BN, M, N) ==
    {[row |-> pid_m * BM + a, col |-> pid_n * BN + b,
      arow |-> OffsAm(pid_m, a, BM, M), bcol |-> OffsBn(pid_n, b, BN, N)] :
        <<a, b>> \in {ab \in (0 .. (BM - 1)) \X (0 .. (BN - 1)) :
                         CMask(pid_m * BM + ab[1], pid_n * BN + ab[2], M, N)}}

\* kernel_consumer_gemm_persistent: the elements of C a tile stores; a_desc,
\* b_desc and c_desc are block descriptors of shapes [M, K], [N, K], [M, N]
PersistentStores(pid_m, pid_n, BM, BN, M, N) ==
    {[row |-> pid_m * BM + ab[1], col |-> pid_n * BN + ab[2],
      arow |-> pid_m * BM + ab[1], bcol |-> pid_n * BN + ab[2]] :
        ab \in {x \in (0 .. (BM - 1)) \X (0 .. (BN - 1)) :
                   /\ pid_m * BM + x[1] >= 0 /\ pid_m * BM + x[1] < M
                   /\ pid_n * BN + x[2] >= 0 /\ pid_n * BN + x[2] < N}}

(***************************************************************************)
(* The invocation protocol.                                                *)
(***************************************************************************)

Shapes ==
    {[M_per_rank |-> 65, N_per_rank |-> 256, K |-> 64],
     [M_per_rank |-> 192, N_per_rank |-> 256, K |-> 64]}

Configs == [internode : BOOLEAN, persistent : BOOLEAN, serial : BOOLEAN, shape : Shapes]

\* the call shapes whose op function has a serial branch: ag_gemm_non_persistent_op
\* and ag_gemm_intra_node_persistent_op take the flag, ag_gemm_inter_node_persistent_op
\* has no such parameter
SerialHonoured == cfg.serial /\ ~(cfg.internode /\ cfg.persistent)

InputKinds == {"ok", "inner_mismatch", "dtype_mismatch", "b_rows_indivisible"}

\* the "Check constraints" asserts of the three op functions
OpAccepts(kind) == kind \notin {"inner_mismatch", "dtype_mismatch"}

M_per_rank == cfg.shape.M_per_rank

\* M = M_per_rank * num_ranks in the op functions
MTotal == M_per_rank * NumRanks

\* grid of the publish copy: cdiv(M_per_rank, 128) * cdiv(N, 256) blocks
CopyGrid(mpr, n) == CDiv(mpr, COPY_BLOCK_SIZE_M) * CDiv(n, COPY_BLOCK_SIZE_N)

CopyBlocks == 0 .. (CopyGrid(M_per_rank, cfg.shape.K) - 1)

\* a copy whose store is not masked by the row bound
CopyDstRowsUnmasked(rank, sm_id, mpr, n) ==
    LET num_pid_n == CDiv(n, COPY_BLOCK_SIZE_N)
        pid_m == sm_id \div num_pid_n
    IN  {rank * mpr + pid_m * COPY_BLOCK_SIZE_M + i : i \in 0 .. (COPY_BLOCK_SIZE_M - 1)}

\* copy_kernel: the columns of the slab block sm_id of a copy writes
CopyDstCols(sm_id, n) ==
    LET num_pid_n == CDiv(n, COPY_BLOCK_SIZE_N)
        pid_n == sm_id % num_pid_n
    IN  {pid_n * COPY_BLOCK_SIZE_N + i :
         i \in {j \in 0 .. (COPY_BLOCK_SIZE_N - 1) : pid_n * COPY_BLOCK_SIZE_N + j < n}}

\* copy_kernel: the rows of the slab block sm_id of rank's copy writes
CopyDstRows(rank, sm_id, mpr, n) ==
    LET num_pid_n == CDiv(n, COPY_BLOCK_SIZE_N)
        pid_m == sm_id \div num_pid_n
    IN  {rank * mpr + pid_m * COPY_BLOCK_SIZE_M + i :
         i \in {j \in 0 .. (COPY_BLOCK_SIZE_M - 1) : pid_m * COPY_BLOCK_SIZE_M + j < mpr}}

NumPidM == CDiv(MTotal, BLOCK_M)

NumPidN == CDiv(cfg.shape.N_per_rank, BLOCK_N)

NumTiles == NumPidM * NumPidN

\* grid of the GEMM launch
GemmGrid(persistent, num_tiles) == IF persistent THEN Min(NumSMs, num_tiles) ELSE num_tiles

Units == 0 .. (GemmGrid(cfg.persistent, NumTiles) - 1)

\* a tiles_per_SM that forgets the remainder
TilesPerSMNoRemainder(start_pid, num_tiles, NUM_SMS) == num_tiles \div NUM_SMS

\* kernel_consumer_gemm_persistent: tiles_per_SM of unit start_pid
TilesPerSM(start_pid, num_tiles, NUM_SMS) ==
    (num_tiles \div NUM_SMS) + (IF start_pid < num_tiles % NUM_SMS THEN 1 ELSE 0)

UnitTiles(u) == IF cfg.persistent THEN TilesPerSM(u, NumTiles, NumSMs) ELSE 1

\* the tile id of unit u's it-th tile
UnitTileId(u, it) == IF cfg.persistent THEN u + it * NumSMs ELSE u

\* the (pid_m, pid_n) the kernel of this call shape derives for a work item on a rank
TileChoices(r, id) ==
    IF cfg.persistent
    THEN PersistentTiles(id, MTotal, cfg.shape.N_per_rank, BLOCK_M, BLOCK_N, GROUP_SIZE_M,
                         r, NumRanks, LOCAL_WORLD_SIZE)
    ELSE {NonPersistentTile(id, MTotal, cfg.shape.N_per_rank, BLOCK_M, BLOCK_N,
                            GROUP_SIZE_M, r, NumRanks)}

OutTiles == (0 .. (NumPidM - 1)) \X (0 .. (NumPidN - 1))

\* the copy blocks and GEMM units of any of the shapes
AllCopyBlocks == UNION {0 .. (CopyGrid(sh.M_per_rank, sh.K) - 1) : sh \in Shapes}

AllUnits ==
    UNION {0 .. (CDiv(sh.M_per_rank * NumRanks, BLOCK_M) * CDiv(sh.N_per_rank, BLOCK_N) - 1) :
           sh \in Shapes}

\* the blocks of the slab that hold the given rows
BlocksOfRows(rows) ==
    {sb \in Ranks \X CopyBlocks :
        CopyDstRows(sb[1], sb[2], M_per_rank, cfg.shape.K) \cap rows # {}}

IdleUnit == [it |-> 0, st |-> "idle", pm |-> 0, pn |-> 0]

HostIdle == {"idle", "returned", "raised"}

\* the flag_value of the publish kernel in flight: ctx.phase as it was at the launch
FlagValue(r) == phase[r] - 2

\* the order in which a rank's all-gather stream serves its peers
PeerOrder(r) == [i \in 1 .. (NumRanks - 1) |-> (r + i) % NumRanks]

AgEnd == 2 * (NumRanks - 1)

NoItem == [pid_m |-> -1, pid_n |-> -1, slots |-> {}, loads |-> {}, stores |-> {}]

\* no kernel launch under examination
NoTp ==
    [l |-> [k |-> "none", W |-> 1, rank |-> 0, mpr |-> 1, BM |-> 1, N |-> 1, BN |-> 1, G |-> 1,
            NUM_SMS |-> 1],
     next |-> 0, tiles |-> {}, cur |-> NoItem, blocked |-> {}, stalled |-> FALSE, c |-> {}, rot |-> {},
                   late |-> FALSE]

\* no persistent-kernel launch under examination
NoLp == [NUM_SMS |-> 1, num_tiles |-> 0, k_tiles |-> 1, unit |-> <<>>, stores |-> {}]

\* no context constructed
NoLaunch ==
    [kernel |-> "none", branch |-> "none", nnodes |-> 0, lws |-> 0, pub |-> 0, gemm |-> 0,
     method |-> "none", own_flag |-> 0, ready_value |-> 0, M |-> 0, view_rows |-> 0, copy_end |-> 0,
     named |-> "none", NUM_SMS |-> 0, units |-> 0]

NoCtx ==
    [st |-> "none", internode |-> FALSE, rank |-> 0, num_ranks |-> 1, num_local_ranks |-> 1,
     local_rank |-> 0, phase |-> 0, used |-> 0, all_gather_method |-> "none", launch |-> NoLaunch,
     max_M |-> 0, autotune |-> FALSE]

\* the state of the ranks after context construction: buffers zeroed, phase 1
ProtoInit ==
    /\ phase = [r \in Ranks |-> InitialPhase]
    /\ calls = [r \in Ranks |-> 0]
    /\ kinds = [n \in 1 .. MaxCalls |-> "unset"]
    /\ input = [r \in Ranks |-> "ok"]
    /\ pc = [r \in Ranks |-> "idle"]
    /\ seen = [r \in Ranks |-> {}]
    /\ blk = [r \in Ranks |-> [b \in CopyBlocks |-> "idle"]]
    /\ sync = [r \in Ranks |-> [s \in Ranks |-> 0]]
    /\ nvb = [r \in Ranks |-> 0]
    /\ flag = [r \in Ranks |-> [s \in Ranks |-> 0]]
    /\ ws = [r \in Ranks |-> [s \in Ranks |-> [b \in CopyBlocks |-> 0]]]
    /\ agpos = [r \in Ranks |-> AgEnd]
    /\ gemm = [r \in Ranks |-> [u \in Units |-> IdleUnit]]
    /\ out = [r \in Ranks |-> [t \in OutTiles |-> {}]]

Init ==
    /\ cfg \in Configs
    /\ ProtoInit
    /\ tp = NoTp
    /\ lp = NoLp
    /\ cc = NoCtx

\* a phase that advances by one
NextPhaseByOne(p) == p + 1

\* ctx.phase += 2
NextPhase(p) == p + 2

\* a publish kernel that marks every slot ready
PublishFlagAllReady(rank, s) == 1

\* copy_and_barrier_all_inter_node_kernel: the value thread s of a block stores
\* into slot s of the flag buffer ("set symm barrier")
PublishFlag(rank, s) == IF s = rank THEN 1 ELSE 0

\* ag_gemm_intra_node / ag_gemm_inter_node with an existing context: C is
\* allocated, the publish step is launched with ctx.phase, ctx.phase is
\* advanced, and the op function is entered (its asserts run there).
Invoke(r, kind) ==
    /\ pc[r] \in HostIdle
    /\ calls[r] < MaxCalls
    /\ kinds[calls[r] + 1] \in {"unset", kind}
    /\ kinds' = [kinds EXCEPT ![calls[r] + 1] =
                     IF \A p \in Ranks \ {r} : calls[p] > calls[r] THEN "unset" ELSE kind]
    /\ input' = [input EXCEPT ![r] = kind]
    /\ calls' = [calls EXCEPT ![r] = @ + 1]
    /\ out' = [out EXCEPT ![r] = [t \in OutTiles |-> {}]]
    /\ phase' = [phase EXCEPT ![r] = NextPhase(@)]
    /\ pc' = [pc EXCEPT ![r] = IF cfg.internode THEN "n1" ELSE "h1"]
    /\ UNCHANGED <<cfg, seen, blk, sync, nvb, flag, ws, agpos, gemm, tp, lp, cc>>

\* barrier_all_intra_node_non_atomic(rank, num_ranks, symm_sync_ptr, value):
\* the rank sets its own slot to the value on every participant ...
HandshakeSet(r, value) == [p \in Ranks |-> [sync[p] EXCEPT ![r] = value]]

\* ... then waits for every slot of its own buffer to reach the value
HandshakeReached(r, p, value) == sync[r][p] = value

HandshakeTarget(r) == IF pc[r] = "h1w" THEN FlagValue(r) ELSE FlagValue(r) + 1

\* line 90: first handshake of the publish kernel, at flag_value
Handshake1Arrive(r) ==
    /\ pc[r] = "h1"
    /\ sync' = HandshakeSet(r, FlagValue(r))
    /\ seen' = [seen EXCEPT ![r] = {r}]
    /\ pc' = [pc EXCEPT ![r] = "h1w"]
    /\ UNCHANGED <<cfg, phase, calls, kinds, input, blk, nvb, flag, ws, agpos, gemm, out, tp, lp, cc>>

HandshakeObserve(r, p) ==
    /\ pc[r] \in {"h1w", "h2w"}
    /\ p \notin seen[r]
    /\ HandshakeReached(r, p, HandshakeTarget(r))
    /\ seen' = [seen EXCEPT ![r] = @ \cup {p}]
    /\ UNCHANGED <<cfg, phase, calls, kinds, input, pc, blk, sync, nvb, flag, ws, agpos, gemm, out, tp, lp, cc>>

\* a first handshake that lets the rank through without waiting for its peers
Handshake1PassNoWait(r) ==
    /\ pc[r] = "h1w"
    /\ pc' = [pc EXCEPT ![r] = "copy"]
    /\ blk' = [blk EXCEPT ![r] = [b \in CopyBlocks |-> "copy"]]
    /\ UNCHANGED <<cfg, phase, calls, kinds, input, seen, sync, nvb, flag, ws, agpos, gemm, out, tp, lp, cc>>

Handshake1Pass(r) ==
    /\ pc[r] = "h1w"
    /\ seen[r] = Ranks
    /\ pc' = [pc EXCEPT ![r] = "copy"]
    /\ blk' = [blk EXCEPT ![r] = [b \in CopyBlocks |-> "copy"]]
    /\ UNCHANGED <<cfg, phase, calls, kinds, input, seen, sync, nvb, flag, ws, agpos, gemm, out, tp, lp, cc>>

\* copy_kernel, one block: the block's rows of the local shard go to the slab
BlockCopy(r, b) ==
    /\ pc[r] = "copy"
    /\ blk[r][b] = "copy"
    /\ ws' = [ws EXCEPT ![r][r][b] = calls[r]]
    /\ blk' = [blk EXCEPT ![r][b] = IF cfg.internode THEN "done" ELSE "flag"]
    /\ UNCHANGED <<cfg, phase, calls, kinds, input, pc, seen, sync, nvb, flag, agpos, gemm, out, tp, lp, cc>>

\* lines 93-95, one block: threads 0 .. num_ranks-1 store the flag buffer
BlockSetFlags(r, b) ==
    /\ pc[r] = "copy"
    /\ blk[r][b] = "flag"
    /\ flag' = [flag EXCEPT ![r] = [s \in Ranks |-> PublishFlag(r, s)]]
    /\ blk' = [blk EXCEPT ![r][b] = "done"]
    /\ UNCHANGED <<cfg, phase, calls, kinds, input, pc, seen, sync, nvb, ws, agpos, gemm, out, tp, lp, cc>>

\* line 96: second handshake, at flag_value + 1
Handshake2Arrive(r) ==
    /\ pc[r] = "copy"
    /\ ~cfg.internode
    /\ \A b \in CopyBlocks : blk[r][b] = "done"
    /\ sync' = HandshakeSet(r, FlagValue(r) + 1)
    /\ seen' = [seen EXCEPT ![r] = {r}]
    /\ pc' = [pc EXCEPT ![r] = "h2w"]
    /\ UNCHANGED <<cfg, phase, calls, kinds, input, blk, nvb, flag, ws, agpos, gemm, out, tp, lp, cc>>

\* the publish step is over on the rank: the all-gather stream and the GEMM
\* stream, which both wait on the caller's stream, start (in a serial branch
\* the GEMM is not launched yet); a call whose op function raised has launched
\* nothing more
PublishDone(r) ==
    IF OpAccepts(input[r])
    THEN /\ pc' = [pc EXCEPT ![r] = "run"]
         /\ agpos' = [agpos EXCEPT ![r] = 0]
         /\ gemm' = [gemm EXCEPT ![r] =
                        [u \in Units |-> [IdleUnit EXCEPT !.st = IF SerialHonoured THEN "idle" ELSE "wait"]]]
    ELSE /\ pc' = [pc EXCEPT ![r] = "raised"]
         /\ UNCHANGED <<agpos, gemm>>

\* a second handshake that lets the rank through without waiting for its peers
Handshake2PassNoWait(r) ==
    /\ pc[r] = "h2w"
    /\ PublishDone(r)
    /\ UNCHANGED <<cfg, phase, calls, kinds, input, seen, blk, sync, nvb, flag, ws, out, tp, lp, cc>>

Handshake2Pass(r) ==
    /\ pc[r] = "h2w"
    /\ seen[r] = Ranks
    /\ PublishDone(r)
    /\ UNCHANGED <<cfg, phase, calls, kinds, input, seen, blk, sync, nvb, flag, ws, out, tp, lp, cc>>

\* pynvshmem.nvshmemx_barrier_all_on_stream (lines 108 and 114)
NvBarrierArrive(r) ==
    /\ pc[r] \in {"n1", "n2"}
    /\ nvb' = [nvb EXCEPT ![r] = @ + 1]
    /\ pc' = [pc EXCEPT ![r] = IF pc[r] = "n1" THEN "n1w" ELSE "n2w"]
    /\ UNCHANGED <<cfg, phase, calls, kinds, input, seen, blk, sync, flag, ws, agpos, gemm, out, tp, lp, cc>>

NvBarrierPass(r) ==
    /\ pc[r] \in {"n1w", "n2w"}
    /\ \A p \in Ranks : nvb[p] >= nvb[r]
    /\ IF pc[r] = "n1w"
       THEN /\ pc' = [pc EXCEPT ![r] = "fill"]
            /\ UNCHANGED <<agpos, gemm>>
       ELSE PublishDone(r)
    /\ UNCHANGED <<cfg, phase, calls, kinds, input, seen, blk, sync, nvb, flag, ws, out, tp, lp, cc>>

\* barrier_ptr.fill_(0) (line 109)
FillZero(r) ==
    /\ pc[r] = "fill"
    /\ flag' = [flag EXCEPT ![r] = [s \in Ranks |-> 0]]
    /\ pc' = [pc EXCEPT ![r] = "copy"]
    /\ blk' = [blk EXCEPT ![r] = [b \in CopyBlocks |-> "copy"]]
    /\ UNCHANGED <<cfg, phase, calls, kinds, input, seen, sync, nvb, ws, agpos, gemm, out, tp, lp, cc>>

\* a publish step that does not end with the barrier of line 114
SetSignalNoBarrier(r) ==
    /\ pc[r] = "copy"
    /\ cfg.internode
    /\ \A b \in CopyBlocks : blk[r][b] = "done"
    /\ flag' = [flag EXCEPT ![r][r] = 1]
    /\ PublishDone(r)
    /\ UNCHANGED <<cfg, phase, calls, kinds, input, seen, blk, sync, nvb, ws, out, tp, lp, cc>>

\* set_signal(barrier_ptr[rank].data_ptr(), 1, ...) (line 113), after which
\* the rank goes to the closing barrier (line 114)
SetSignal(r) ==
    /\ pc[r] = "copy"
    /\ cfg.internode
    /\ \A b \in CopyBlocks : blk[r][b] = "done"
    /\ flag' = [flag EXCEPT ![r][r] = 1]
    /\ pc' = [pc EXCEPT ![r] = "n2"]
    /\ UNCHANGED <<cfg, phase, calls, kinds, input, seen, blk, sync, nvb, ws, agpos, gemm, out, tp, lp, cc>>

\* the peer the all-gather stream of r is serving
AgPeer(r) == PeerOrder(r)[(agpos[r] \div 2) + 1]

\* one shard transfer.  Intra-node: r pulls the peer's shard from the peer's
\* slab into its own; inter-node: r puts its shard into the peer's slab.
AgCopy(r) ==
    /\ pc[r] = "run"
    /\ agpos[r] < AgEnd
    /\ agpos[r] % 2 = 0
    /\ ws' = IF cfg.internode
             THEN [ws EXCEPT ![AgPeer(r)][r] = ws[r][r]]
             ELSE [ws EXCEPT ![r][AgPeer(r)] = ws[AgPeer(r)][AgPeer(r)]]
    /\ agpos' = [agpos EXCEPT ![r] = @ + 1]
    /\ UNCHANGED <<cfg, phase, calls, kinds, input, pc, seen, blk, sync, nvb, flag, gemm, out, tp, lp, cc>>

\* ... followed by raising the readiness flag of that shard
AgSignal(r) ==
    /\ pc[r] = "run"
    /\ agpos[r] < AgEnd
    /\ agpos[r] % 2 = 1
    /\ flag' = IF cfg.internode
               THEN [flag EXCEPT ![AgPeer(r)][r] = READY]
               ELSE [flag EXCEPT ![r][AgPeer(r)] = READY]
    /\ agpos' = [agpos EXCEPT ![r] = @ + 1]
    /\ UNCHANGED <<cfg, phase, calls, kinds, input, pc, seen, blk, sync, nvb, ws, gemm, out, tp, lp, cc>>

\* the serial branch: call_ag(); current_stream.wait_stream(ag_stream);
\* torch.cuda.synchronize(); then the GEMM kernel is launched
SerialGemmLaunch(r) ==
    /\ SerialHonoured
    /\ pc[r] = "run"
    /\ agpos[r] = AgEnd
    /\ \A u \in Units : gemm[r][u].st = "idle"
    /\ gemm' = [gemm EXCEPT ![r] = [u \in Units |-> [IdleUnit EXCEPT !.st = "wait"]]]
    /\ UNCHANGED <<cfg, phase, calls, kinds, input, pc, seen, blk, sync, nvb, flag, ws, agpos, out, tp, lp, cc>>

\* a wait that gives up and lets the unit go on
WaitGivesUp(r, slots, value) == TRUE

\* dl.wait(ptr + rank_beg, rank_end - rank_beg + 1, ..., waitValue): every
\* polled slot holds the value
WaitResolved(r, slots, value) == \A s \in slots : flag[r][s] = value

\* a unit derives its tile and its wait on the tile's slot range resolves
UnitWait(r, u) ==
    /\ pc[r] = "run"
    /\ gemm[r][u].st = "wait"
    /\ \E t \in TileChoices(r, UnitTileId(u, gemm[r][u].it)) :
          /\ WaitResolved(r, WaitSlots(t.pid_m, BLOCK_M, MTotal, M_per_rank), READY)
          /\ gemm' = [gemm EXCEPT ![r][u] = [@ EXCEPT !.st = "load", !.pm = t.pid_m, !.pn = t.pid_n]]
    /\ UNCHANGED <<cfg, phase, calls, kinds, input, pc, seen, blk, sync, nvb, flag, ws, agpos, out, tp, lp, cc>>

\* what a unit stores for its tile: computed from the slab blocks holding the
\* rows it stores
TileValue(r, pm) == {ws[r][sb[1]][sb[2]] : sb \in BlocksOfRows(StoreRows(pm, BLOCK_M, MTotal))}

\* the unit loads its K-slices, accumulates and stores the tile; a tile
\* outside the output is not stored
UnitStore(r, u) ==
    /\ pc[r] = "run"
    /\ gemm[r][u].st = "load"
    /\ LET tile == <<gemm[r][u].pm, gemm[r][u].pn>>
       IN  out' = IF tile \in OutTiles
                  THEN [out EXCEPT ![r][tile] = TileValue(r, tile[1])]
                  ELSE out
    /\ gemm' = [gemm EXCEPT ![r][u] =
                   [@ EXCEPT !.it = @ + 1,
                             !.st = IF gemm[r][u].it + 1 < UnitTiles(u) THEN "wait" ELSE "done"]]
    /\ UNCHANGED <<cfg, phase, calls, kinds, input, pc, seen, blk, sync, nvb, flag, ws, agpos, tp, lp, cc>>

\* an op function that returns without current_stream.wait_stream(gemm_stream)
CompleteNoGemmJoin(r) ==
    /\ pc[r] = "run"
    /\ agpos[r] = AgEnd
    /\ pc' = [pc EXCEPT ![r] = "returned"]
    /\ gemm' = [gemm EXCEPT ![r] = [u \in Units |-> IdleUnit]]
    /\ UNCHANGED <<cfg, phase, calls, kinds, input, seen, blk, sync, nvb, flag, ws, agpos, out, tp, lp, cc>>

\* current_stream.wait_stream(ag_stream); current_stream.wait_stream(gemm_stream)
Complete(r) ==
    /\ pc[r] = "run"
    /\ agpos[r] = AgEnd
    /\ \A u \in Units : gemm[r][u].st = "done"
    /\ pc' = [pc EXCEPT ![r] = "returned"]
    /\ gemm' = [gemm EXCEPT ![r] = [u \in Units |-> IdleUnit]]
    /\ UNCHANGED <<cfg, phase, calls, kinds, input, seen, blk, sync, nvb, flag, ws, agpos, out, tp, lp, cc>>

Next ==
    \/ \E r \in Ranks, k \in InputKinds : Invoke(r, k)
    \/ \E r \in Ranks : Handshake1Arrive(r)
    \/ \E r \in Ranks, p \in Ranks : HandshakeObserve(r, p)
    \/ \E r \in Ranks : Handshake1Pass(r)
    \/ \E r \in Ranks, b \in CopyBlocks : BlockCopy(r, b)
    \/ \E r \in Ranks, b \in CopyBlocks : BlockSetFlags(r, b)
    \/ \E r \in Ranks : Handshake2Arrive(r)
    \/ \E r \in Ranks : Handshake2Pass(r)
    \/ \E r \in Ranks : NvBarrierArrive(r)
    \/ \E r \in Ranks : NvBarrierPass(r)
    \/ \E r \in Ranks : FillZero(r)
    \/ \E r \in Ranks : SetSignal(r)
    \/ \E r \in Ranks : AgCopy(r)
    \/ \E r \in Ranks : AgSignal(r)
    \/ \E r \in Ranks : SerialGemmLaunch(r)
    \/ \E r \in Ranks, u \in Units : UnitWait(r, u)
    \/ \E r \in Ranks, u \in Units : UnitStore(r, u)
    \/ \E r \in Ranks : Complete(r)

Spec == Init /\ [][Next]_vars

(***************************************************************************)
(* Claims about the invocation protocol (specification Spec).              *)
(***************************************************************************)

\* the reference output of the rank's latest invocation: every tile computed
\* from that invocation's rows of the gathered A, and from nothing else
Reference(r) == [t \in OutTiles |-> {calls[r]}]

\* all rows of shard s of the rank's current invocation are in its slab
DataLanded(r, s) == \A b \in CopyBlocks : ws[r][s][b] = calls[r]

\* the rank's publish step has written the last of its flag resets
PublishResetDone(r) == pc[r] \in {"h2w", "n2", "n2w", "run", "returned", "raised"}

\* C1: on every rank, for every call shape and every interleaving of shard
\* arrival with tile computation, the output a returned invocation hands back
\* equals the reference product of the gathered A with the rank's B.
C1_OutputEqualsReference ==
    \A r \in Ranks : pc[r] = "returned" => out[r] = Reference(r)

\* C2 as stated: in every reachable state, a slot holding the ready value
\* means that the rows of that shard for the current invocation are in the slab.
C2_ReadyImpliesLandedEverywhere ==
    \A r \in Ranks, s \in Ranks : (calls[r] > 0 /\ flag[r][s] = READY) => DataLanded(r, s)

\* C2 as amended: in every state in which the rank's publish step of the
\* current invocation is over (the states in which a transport or a GEMM unit
\* of the invocation runs), a slot holding the ready value means that the rows
\* of that shard for the current invocation are in the rank's slab; a unit
\* whose wait has resolved finds the current rows of every shard it waited on.
C2_ReadyImpliesLanded ==
    \A r \in Ranks :
        pc[r] = "run" =>
            /\ \A s \in Ranks : flag[r][s] = READY => DataLanded(r, s)
            /\ \A u \in Units :
                  gemm[r][u].st = "load" =>
                      \A s \in WaitSlots(gemm[r][u].pm, BLOCK_M, MTotal, M_per_rank) :
                          DataLanded(r, s)

\* C2 witness: in a later invocation, a unit has passed its wait on a range
\* holding a remote shard, which the transport has landed and flagged.
C2_Witness ==
    \E r \in Ranks, u \in Units, s \in Ranks :
        /\ pc[r] = "run" /\ calls[r] >= 2 /\ s # r
        /\ gemm[r][u].st = "load"
        /\ s \in WaitSlots(gemm[r][u].pm, BLOCK_M, MTotal, M_per_rank)
        /\ flag[r][s] = READY

\* C6: over three consecutive invocations on the same contexts, each returned
\* invocation's output is the reference for its own inputs, and no unit that
\* has passed its wait finds rows of another invocation in the shards it
\* waited on.
C6_ContextReuse ==
    \A r \in Ranks :
        /\ (pc[r] = "returned" /\ calls[r] >= 3) => out[r] = Reference(r)
        /\ \A u \in Units :
              (pc[r] = "run" /\ gemm[r][u].st = "load") =>
                  \A s \in WaitSlots(gemm[r][u].pm, BLOCK_M, MTotal, M_per_rank) :
                      \A b \in CopyBlocks : ws[r][s][b] = calls[r]

\* the invocation on whose behalf slot s of rank r's flag buffer is raised by
\* a transport: the intra-node transport of r raises its own slots, an
\* inter-node transfer is signalled by the rank that owns the shard
RaisingCall(r, s) == IF cfg.internode THEN calls[s] ELSE calls[r]

\* C7: from the end of a rank's flag reset until its next invocation starts,
\* no slot of its flag buffer is lowered; and a transport of invocation n
\* raises a slot only after the rank's reset of invocation n, so that no
\* reset (by a block of the publish kernel or by fill_(0)) lowers it again
\* within that invocation.
C7_FlagMonotonic ==
    [][\A r \in Ranks, s \in Ranks :
          /\ (PublishResetDone(r) /\ calls'[r] = calls[r]) => flag'[r][s] >= flag[r][s]
          /\ (s # r /\ flag'[r][s] > flag[r][s]) =>
                \/ calls[r] = RaisingCall(r, s) /\ PublishResetDone(r)
                \/ calls[r] > RaisingCall(r, s)]_vars

\* C7 witness: a transport has raised a remote slot in a second invocation.
C7_Witness ==
    \E r \in Ranks, s \in Ranks :
        s # r /\ calls[r] >= 2 /\ pc[r] = "run" /\ flag[r][s] = READY

\* the last handshake value rank r has set, given where it stands
LastHandshakeValue(r) ==
    IF pc[r] \in {"h1w", "copy"} THEN 2 * calls[r] - 1
    ELSE IF pc[r] = "h1" THEN 2 * (calls[r] - 1)
    ELSE 2 * calls[r]

\* C8: ctx.phase starts at 1 and grows by exactly 2 per invocation, and the
\* handshakes of invocation n use the values 2n-1 and 2n, each once and in
\* increasing order.
C8_PhaseAdvances ==
    \A r \in Ranks :
        /\ phase[r] = InitialPhase + 2 * calls[r]
        /\ ~cfg.internode => \A p \in Ranks : sync[p][r] = LastHandshakeValue(r)

\* C8 witness: the second handshake of a third invocation.
C8_Witness == \E r \in Ranks : calls[r] = 3 /\ pc[r] = "h2w"

\* C9: a call with an inner-dimension mismatch, a dtype mismatch or a B row
\* count not divisible by the rank count is rejected with no device work
\* launched and ctx.phase unchanged.
C9_RejectedBeforeDeviceWork ==
    [][\A r \in Ranks :
          (calls'[r] = calls[r] + 1 /\ input'[r] # "ok") =>
              (phase'[r] = phase[r] /\ pc'[r] = "raised")]_vars

\* C11: in each op function the return to the caller's stream comes after the
\* end of the all-gather stream's work and of the GEMM stream's work of the
\* invocation: at the return every transfer is done and every unit has
\* finished its last tile, and nothing is stored to the output buffer between
\* the return and the next invocation.
C11_CompleteAfterJoin ==
    [][\A r \in Ranks :
          /\ (pc'[r] = "returned" /\ pc[r] # "returned") =>
                (agpos[r] = AgEnd /\ \A u \in Units : gemm[r][u].st = "done")
          /\ (pc[r] = "returned" /\ calls'[r] = calls[r]) => out'[r] = out[r]]_vars

\* C11 witness: a second invocation has returned on a rank.
C11_Witness == \E r \in Ranks : pc[r] = "returned" /\ calls[r] = 2 /\ agpos[r] = AgEnd

\* everything the publish step of the rank's current invocation does is done:
\* every block has copied its rows and written the flags, the own slot holds
\* the ready value, and the closing handshake (intra-node) or barrier
\* (inter-node) has been passed by way of every peer's arrival
PublishComplete(r) ==
    /\ \A b \in CopyBlocks : blk[r][b] = "done"
    /\ DataLanded(r, r)
    /\ flag[r][r] = READY
    /\ IF cfg.internode
       THEN nvb[r] = 2 * calls[r] /\ \A p \in Ranks : nvb[p] >= nvb[r]
       ELSE seen[r] = Ranks /\ sync[r][r] = FlagValue(r) + 1

\* the all-gather of the rank's current invocation has fully completed on the
\* rank: every shard has landed in its slab and every flag slot is raised
AllGatherComplete(r) == \A s \in Ranks : DataLanded(r, s) /\ flag[r][s] = READY

\* C13: with the serial flag set, in each of the four call shapes no GEMM
\* unit starts on a rank until the all-gather of that invocation has fully
\* completed on that rank.
C13_SerialGemmAfterAllGather ==
    \A r \in Ranks :
        (cfg.serial /\ pc[r] = "run" /\ \E u \in Units : gemm[r][u].st # "idle")
            => AllGatherComplete(r)

\* C12: no transfer of the all-gather stream and no step of a GEMM unit
\* happens on a rank before the publish step of that invocation (local copy,
\* local flag, barrier handshakes) has completed on the rank.
C12_StreamsStartAfterPublish ==
    [][\A r \in Ranks :
          (agpos'[r] > agpos[r] \/ \E u \in Units : gemm[r][u].st \in {"wait", "load"}
                                                     /\ gemm'[r][u] # gemm[r][u]
                                                     /\ pc'[r] = pc[r])
              => PublishComplete(r)]_vars

\* C12 witness: in a second invocation a transfer is done and a unit is past
\* its wait.
C12_Witness ==
    \E r \in Ranks, u \in Units :
        calls[r] = 2 /\ pc[r] = "run" /\ agpos[r] = 1 /\ gemm[r][u].st = "load"

\* the slots unit u of rank r polls in the wait it is in (one range per tile
\* the kernel can derive for its work item)
PolledRanges(r, u) ==
    {WaitSlots(t.pid_m, BLOCK_M, MTotal, M_per_rank) :
        t \in TileChoices(r, UnitTileId(u, gemm[r][u].it))}

\* C15: a waiting unit leaves its wait in one way only, by going on to load
\* its tile, and only in a state where every slot of the range it waited on
\* holds the ready value (so a unit whose slot never gets there stays blocked,
\* with no error state and no fallback), and the invocation does not return
\* while a unit waits.  That the other units finish their tiles meanwhile is
\* what the witness reaches.
C15_WaitBlocksWithoutTimeout ==
    [][\A r \in Ranks :
             /\ \A u \in Units :
                   (gemm[r][u].st = "wait" /\ gemm'[r][u] # gemm[r][u]) =>
                       /\ gemm'[r][u].st = "load"
                       /\ \A s \in WaitSlots(gemm'[r][u].pm, BLOCK_M, MTotal, M_per_rank) :
                              flag[r][s] = READY
             /\ (pc[r] = "run" /\ \E u \in Units : gemm[r][u].st = "wait") => pc'[r] = "run"]_vars

\* C15 witness: on a rank one unit has finished its tile while another is
\* still blocked on a slot that does not hold the ready value.
C15_Witness ==
    \E r \in Ranks, u1 \in Units, u2 \in Units :
        /\ pc[r] = "run" /\ ~cfg.persistent
        /\ gemm[r][u1].st = "done" /\ gemm[r][u2].st = "wait"
        /\ \A rg \in PolledRanges(r, u2) : \E s \in rg : flag[r][s] # READY

\* the output buffer the single-tier non-persistent variant leaves on a rank
\* for the invocation's inputs: program id writes the tile NonPersistentTile
\* gives it, computed from the invocation's rows of the gathered A
NonPersistentOutput(r) ==
    [t \in OutTiles |->
        IF \E id \in 0 .. (NumTiles - 1) :
              LET nt == NonPersistentTile(id, MTotal, cfg.shape.N_per_rank, BLOCK_M, BLOCK_N,
                                          GROUP_SIZE_M, r, NumRanks)
              IN  <<nt.pid_m, nt.pid_n>> = t
        THEN {calls[r]}
        ELSE {}]

\* C17: for the same inputs and layout, the output buffer a first invocation
\* hands back is the same under single-tier and hierarchical transport and
\* under the persistent and the non-persistent kernel: in each of the four
\* call shapes it is the buffer the single-tier non-persistent variant leaves.
C17_VariantsAgree ==
    \A r \in Ranks :
        (pc[r] = "returned" /\ calls[r] = 1 /\ input[r] = "ok") => out[r] = NonPersistentOutput(r)

\* rank p has entered the first handshake of invocation n
EnteredHandshake1(p, n) == calls[p] > n \/ (calls[p] = n /\ pc[p] # "h1")

\* rank p has finished its local shard copy and its flag reset of invocation n
\* and has entered the second handshake
CopiedAndReset(p, n) == calls[p] > n \/ (calls[p] = n /\ pc[p] \notin {"h1", "h1w", "copy"})

TransportReadsPending(p, r) ==
    \E i \in 1 .. (NumRanks - 1) :
        /\ agpos[p] <= 2 * (i - 1)
        /\ IF cfg.internode THEN p = r ELSE PeerOrder(p)[i] = r

\* the GEMM of r has a unit that has not finished its tiles
GemmReadsPending(p, r) == p = r /\ \E u \in Units : gemm[r][u].st # "done"

\* rank p can still read rank r's own rows of r's slab on behalf of invocation n
CanStillRead(p, r, n) ==
    \/ calls[p] < n
    \/ /\ calls[p] = n
       /\ OpAccepts(input[p])
       /\ \/ pc[p] \notin {"run", "returned", "raised"}
          \/ pc[p] = "run" /\ (TransportReadsPending(p, r) \/ GemmReadsPending(p, r))

\* C25: over consecutive invocations on the same contexts, no rank writes a
\* block of its next local shard into its slab while its own GEMM or a peer's
\* transport can still read those rows on behalf of the invocation before.
C25_NoWriteAfterReadHazard ==
    [][\A r \in Ranks, b \in CopyBlocks :
          (ws'[r][r][b] # ws[r][r][b] /\ calls[r] >= 2) =>
              \A p \in Ranks : ~CanStillRead(p, r, calls[r] - 1)]_vars

\* C25 witness: a rank has written a block of its second shard into its slab
\* after a peer took the first one from it.
C25_Witness ==
    \E r \in Ranks, p \in Ranks, b \in CopyBlocks :
        /\ p # r /\ calls[r] = 2 /\ pc[r] = "copy" /\ ws[r][r][b] = 2
        /\ \A c \in CopyBlocks : ws[p][r][c] = 1

\* the local shard shapes [M_per_rank, K] the copy is examined on: below, at
\* and above one block of rows and of columns
CopyShapes == {1, 65, 128, 129, 192} \X {64, 256, 257}

\* every block of the publish copy of every rank stores inside the rank's own
\* row range and inside the columns of the slab
CopyStaysInOwnRange ==
    \A sh \in CopyShapes, rank \in Ranks :
        \A sm_id \in 0 .. (CopyGrid(sh[1], sh[2]) - 1) :
            /\ CopyDstRows(rank, sm_id, sh[1], sh[2]) \subseteq (rank * sh[1]) .. ((rank + 1) * sh[1] - 1)
            /\ CopyDstCols(sm_id, sh[2]) \subseteq 0 .. (sh[2] - 1)

\* C26: the publish copy on a rank stores only to rows of the rank's own row
\* range and to columns 0 .. K-1 of its slab and changes no other row range
\* of any slab; and whatever step changes the row range of shard s in a slab
\* writes data of rank s there (its input of the invocation, or a copy of
\* what rank s has published in its own slab).
C26_PublishCopyFrame ==
    [][/\ CopyStaysInOwnRange
       /\ \A r \in Ranks :
             (blk'[r] # blk[r] /\ pc[r] = "copy") =>
                 \A q \in Ranks, s \in Ranks : ws'[q][s] # ws[q][s] => (q = r /\ s = r)
       /\ \A q \in Ranks, s \in Ranks, b \in CopyBlocks :
             ws'[q][s][b] # ws[q][s][b] =>
                 /\ CopyDstRows(s, b, M_per_rank, cfg.shape.K) \subseteq
                        (s * M_per_rank) .. ((s + 1) * M_per_rank - 1)
                 /\ \/ q = s /\ ws'[q][s][b] = calls[s]
                    \/ q # s /\ ws'[q][s][b] = ws[s][s][b]]_vars

\* C26 witness: a rank whose shard ends inside a block of rows has copied it
\* into its slab in a second invocation, next to a peer's shard that a
\* transport brought there.
C26_Witness ==
    \E r \in Ranks, s \in Ranks :
        /\ s # r /\ calls[r] = 2 /\ pc[r] = "copy" /\ M_per_rank % COPY_BLOCK_SIZE_M # 0
        /\ \A b \in CopyBlocks : ws[r][r][b] = 2 /\ ws[r][s][b] = 1
        /\ \E b \in CopyBlocks : CopyDstRows(r, b, M_per_rank, cfg.shape.K) # {}

\* the step is one of rank r's publish step (a block of the publish kernel,
\* fill_(0) or set_signal)
PublishStepOf(r) == pc[r] \in {"copy", "fill"} /\ (blk'[r] # blk[r] \/ pc'[r] # pc[r])

\* the step is a step of some rank's all-gather stream
TransportStep == agpos' # agpos

\* C27: every slot of a rank's flag buffer has a single writer over the
\* publish steps and transports of all invocations: the rank's own slot is
\* changed by the rank's publish step only, and the slot of a remote shard by
\* a transport only, never by the rank's reset or fill.
C27_SingleWriterPerSlot ==
    [][\A r \in Ranks, s \in Ranks :
          flag'[r][s] # flag[r][s] =>
              IF s = r THEN PublishStepOf(r) /\ ~TransportStep
                       ELSE TransportStep /\ ~PublishStepOf(r)]_vars

(***************************************************************************)
(* SpecLive: the invocation protocol with nothing crashing and every       *)
(* stream, copy block and GEMM unit of every rank weakly fair; the hosts   *)
(* all make the same sequence of invocations, so a host that can invoke    *)
(* eventually does.                                                        *)
(***************************************************************************)

\* the steps of the caller's stream of rank r (host calls included)
HostStep(r) ==
    \/ \E kind \in InputKinds : Invoke(r, kind)
    \/ Handshake1Arrive(r) \/ Handshake1Pass(r)
    \/ Handshake2Arrive(r) \/ Handshake2Pass(r)
    \/ NvBarrierArrive(r) \/ NvBarrierPass(r)
    \/ FillZero(r) \/ SetSignal(r)
    \/ SerialGemmLaunch(r)
    \/ Complete(r)

\* the steps of the all-gather stream of rank r
AgStep(r) == AgCopy(r) \/ AgSignal(r)

\* the steps of GEMM unit u of rank r
UnitStep(r, u) == UnitWait(r, u) \/ UnitStore(r, u)

\* the steps of copy block b of rank r's publish kernel
BlockStep(r, b) == BlockCopy(r, b) \/ BlockSetFlags(r, b)

Fairness ==
    /\ \A r \in Ranks : WF_vars(HostStep(r)) /\ WF_vars(AgStep(r))
    /\ \A r \in Ranks, p \in Ranks : WF_vars(HandshakeObserve(r, p))
    /\ \A r \in Ranks, u \in AllUnits : WF_vars(u \in Units /\ UnitStep(r, u))
    /\ \A r \in Ranks, b \in AllCopyBlocks : WF_vars(b \in CopyBlocks /\ BlockStep(r, b))

SpecLive == Init /\ [][Next]_vars /\ Fairness

MaxRowsPerRank == 3
MaxBlock == 3
MaxN == 3
MaxGroup == 3
MaxTileSMs == 2

TileWorlds == (1 .. NumRanks) \cup {LOCAL_WORLD_SIZE, 2 * LOCAL_WORLD_SIZE}

TileLaunches ==
    {[k |-> k, W |-> W, rank |-> rank, mpr |-> mpr, BM |-> BM, N |-> N, BN |-> 2, G |-> G,
      NUM_SMS |-> sms] :
        k \in {"non_persistent", "persistent"}, W \in TileWorlds, rank \in 0 .. 2 * LOCAL_WORLD_SIZE,
        mpr \in 1 .. MaxRowsPerRank, BM \in 2 .. MaxBlock, N \in 1 .. MaxN, G \in 1 .. MaxGroup,
        sms \in 1 .. MaxTileSMs}

TpM == tp.l.mpr * tp.l.W

TpNumPidM == CDiv(TpM, tp.l.BM)

TpNumPidN == CDiv(tp.l.N, tp.l.BN)

TpNumTiles == TpNumPidM * TpNumPidN

TpGrid == (0 .. (TpNumPidM - 1)) \X (0 .. (TpNumPidN - 1))

InitTiles ==
    /\ cfg = [internode |-> FALSE, persistent |-> FALSE, serial |-> FALSE, shape |-> CHOOSE sh \in Shapes : TRUE]
    /\ ProtoInit
    /\ \E l \in TileLaunches :
          /\ l.rank < l.W
          /\ l.k = "non_persistent" => l.NUM_SMS = 1
          /\ tp = [l |-> l, next |-> 0, tiles |-> {}, cur |-> NoItem,
                   blocked |-> {}, stalled |-> FALSE, c |-> {}, rot |-> {},
                   late |-> FALSE]
    /\ lp = NoLp
    /\ cc = NoCtx

\* a work item: its tile, the slots it waits on, the rows it loads and stores
WorkItem(t, loads) ==
    [pid_m |-> t.pid_m, pid_n |-> t.pid_n,
     slots |-> WaitSlots(t.pid_m, tp.l.BM, TpM, tp.l.mpr),
     loads |-> loads,
     stores |-> StoreRows(t.pid_m, tp.l.BM, TpM)]

\* the unit that takes work item number i: the non-persistent kernel is
\* launched with one program per tile, the persistent kernel with
\* min(NUM_SMS, num_tiles) programs, program p taking the tile ids
\* p, p + NUM_SMS, p + 2 * NUM_SMS, ... in that order
UnitOf(i) == IF tp.l.k = "persistent" THEN i % tp.l.NUM_SMS ELSE i

\* a unit whose wait range holds a slot of another rank stays in dl.wait
\* until that rank's shard has arrived
NeedsRemote(item) == \E s \in item.slots : s # tp.l.rank

\* work item number i comes, in work-item order, after a tile that needs a
\* remote shard: in program-id order for the non-persistent kernel, in its
\* unit's iteration order for the persistent kernel
AfterRemote(i) == IF tp.l.k = "persistent" THEN UnitOf(i) \in tp.blocked ELSE tp.blocked # {}

BlockedAfter(i, item) == IF NeedsRemote(item) THEN tp.blocked \cup {UnitOf(i)} ELSE tp.blocked

\* program id tp.next of kernel_consumer_gemm_non_persistent
NonPersistentProgram ==
    /\ tp.l.k = "non_persistent"
    /\ tp.next < TpNumTiles
    /\ LET g == GroupedTile(tp.next, TpNumPidM, TpNumPidN, tp.l.G)
           t == NonPersistentTile(tp.next, TpM, tp.l.N, tp.l.BM, tp.l.BN, tp.l.G, tp.l.rank, tp.l.W)
           item == WorkItem(t, NonPersistentLoadRows(t.pid_m, tp.l.BM, TpM))
       IN  tp' = [tp EXCEPT !.next = @ + 1,
                            !.tiles = @ \cup {<<t.pid_m, t.pid_n>>},
                            !.cur = item,
                            !.stalled = UnitOf(tp.next) \in tp.blocked,
                            !.blocked = BlockedAfter(tp.next, item),
                            !.c = @ \cup NonPersistentStores(t.pid_m, t.pid_n, tp.l.BM, tp.l.BN,
                                                             TpM, tp.l.N),
                            !.rot = @ \cup {<<g.pid_m, t.pid_m>>},
                            !.late = AfterRemote(tp.next)]
    /\ UNCHANGED <<protoVars, lp, cc>>

\* tile id tp.next of kernel_consumer_gemm_persistent
PersistentWorkItem ==
    /\ tp.l.k = "persistent"
    /\ tp.next < TpNumTiles
    /\ \E t \in PersistentTiles(tp.next, TpM, tp.l.N, tp.l.BM, tp.l.BN, tp.l.G,
                                tp.l.rank, tp.l.W, LOCAL_WORLD_SIZE) :
          LET g == PersistentGroupedTile(tp.next, TpNumPidM, TpNumPidN, tp.l.G)
              item == WorkItem(t, PersistentLoadRows(t.pid_m, tp.l.BM, TpM))
          IN  tp' = [tp EXCEPT !.next = @ + 1,
                               !.tiles = @ \cup {<<t.pid_m, t.pid_n>>},
                               !.cur = item,
                               !.stalled = UnitOf(tp.next) \in tp.blocked,
                               !.blocked = BlockedAfter(tp.next, item),
                               !.c = @ \cup PersistentStores(t.pid_m, t.pid_n, tp.l.BM, tp.l.BN,
                                                             TpM, tp.l.N),
                               !.rot = @ \cup {<<g.pid_m, t.pid_m>>},
                               !.late = AfterRemote(tp.next)]
    /\ UNCHANGED <<protoVars, lp, cc>>

NextTiles == NonPersistentProgram \/ PersistentWorkItem

SpecTiles == InitTiles /\ [][NextTiles]_vars

\* C3: in both kernels, every row of the gathered A a unit loads belongs to a
\* rank whose flag slot is in the range the unit waited on.
C3_LoadsWithinWaitedShards ==
    \A row \in tp.cur.loads : (row \div tp.l.mpr) \in tp.cur.slots

\* C4: in the non-persistent kernel the programs 0 .. num_tiles-1 are mapped
\* one-to-one onto the tile grid: each program stores a tile of the grid no
\* earlier program stored, and once all have run every tile is stored.
C4_NonPersistentBijection ==
    tp.l.k = "non_persistent" =>
        /\ tp.tiles \subseteq TpGrid
        /\ Cardinality(tp.tiles) = tp.next
        /\ tp.next = TpNumTiles => tp.tiles = TpGrid

\* C4 witness: a finished launch on a rotated rank whose last group of row
\* tiles is partial, with more than one column tile.
C4_Witness ==
    /\ tp.l.k = "non_persistent" /\ tp.next = TpNumTiles
    /\ tp.l.rank > 0 /\ TpNumPidN > 1
    /\ TpNumPidM > tp.l.G /\ TpNumPidM % tp.l.G # 0

\* the rows of the latest work item's tile all belong to the launching
\* rank's own shard
OwnShardTile ==
    /\ tp.cur.stores # {}
    /\ \A row \in tp.cur.stores : row \div tp.l.mpr = tp.l.rank

\* C16: a tile whose rows lie entirely in the rank's own shard waits only on
\* the rank's own flag slot, and the unit that computes it has not had to
\* wait for another rank's shard before reaching it, so that the tile is
\* written even if no remote shard ever arrives.
C16_OwnShardTilesNeedNoRemoteShard ==
    OwnShardTile => (tp.cur.slots = {tp.l.rank} /\ ~tp.stalled)

\* the ranks whose rows [r * M_per_rank, (r + 1) * M_per_rank) of the gathered
\* A meet the rows [offs_am, min(offs_am + BLOCK_SIZE_M, M)) of the latest tile
OwningRanks ==
    {r \in 0 .. (tp.l.W - 1) :
        \E row \in (r * tp.l.mpr) .. ((r + 1) * tp.l.mpr - 1) :
            /\ row >= tp.cur.pid_m * tp.l.BM
            /\ row < Min(tp.cur.pid_m * tp.l.BM + tp.l.BM, TpM)}

\* C19: in both kernels, for every row tile with 0 <= offs_am < M, the slots
\* rank_beg .. rank_end the unit waits on are exactly the ranks whose rows
\* meet the tile's rows: no owning rank is missing and no other rank is
\* waited on.
C19_WaitRangeExact ==
    (tp.cur.pid_m >= 0 /\ tp.cur.pid_m * tp.l.BM < TpM) => tp.cur.slots = OwningRanks

\* C19 witness: in each kernel, a ragged last row tile, and a tile whose rows
\* span three ranks.
C19_Witness ==
    /\ tp.l.rank > 0
    /\ tp.cur.pid_m >= 0 /\ tp.cur.pid_m * tp.l.BM < TpM
    /\ \/ tp.l.k = "persistent" /\ tp.l.W = LOCAL_WORLD_SIZE /\ Cardinality(tp.cur.slots) = 3
       \/ tp.l.k = "non_persistent" /\ tp.cur.pid_m * tp.l.BM + tp.l.BM > TpM
                                     /\ Cardinality(tp.cur.slots) = 2

\* gemm_non_persistent / gemm_persistent: the kernels are launched on an A of
\* any row count M with ctx.num_ranks; the wait ranges <<rank_beg, rank_end>>
\* of the row tiles 0 .. num_pid_m-1, with M_per_rank = M // num_ranks
StandaloneWaitRanges(M, W, BM) ==
    {<<RankBeg(pid_m * BM, M \div W), RankEnd(pid_m * BM, BM, M, M \div W)>> :
        pid_m \in 0 .. (CDiv(M, BM) - 1)}

\* the stand-alone launches with the rank count and tile size of the launch
\* under examination: every row count M from num_ranks up to its M
StandaloneWaitsInRange ==
    \A M \in tp.l.W .. TpM :
        \A be \in StandaloneWaitRanges(M, tp.l.W, tp.l.BM) :
            0 <= be[1] /\ be[1] <= be[2] /\ be[2] < tp.l.W

\* C33: every readiness wait addresses slots inside the flag buffer: for the
\* tile of every work item of a launch of either kernel by the all-gather
\* GEMM call shapes, and for every row tile of the stand-alone launches,
\* also with M not divisible by num_ranks, 0 <= rank_beg <= rank_end < num_ranks.
C33_WaitInsideFlagBuffer ==
    tp.next > 0 =>
        /\ 0 <= RankBeg(tp.cur.pid_m * tp.l.BM, tp.l.mpr)
        /\ RankBeg(tp.cur.pid_m * tp.l.BM, tp.l.mpr) <= RankEnd(tp.cur.pid_m * tp.l.BM, tp.l.BM, TpM, tp.l.mpr)
        /\ RankEnd(tp.cur.pid_m * tp.l.BM, tp.l.BM, TpM, tp.l.mpr) < tp.l.W
        /\ StandaloneWaitsInRange

\* C18: in the non-persistent kernel, with M or N not a multiple of the tile
\* size, every element stored lies inside [0, M) x [0, N) and was computed
\* from the row of A and the column of the product of that very element
\* (the rows and columns a ragged tile loads from beyond the edge, wrapped
\* modulo M and N, reach no stored element), and once all programs have run
\* every element of [0, M) x [0, N) has been stored.
C18_BoundaryTiles ==
    tp.l.k = "non_persistent" =>
        /\ \A e \in tp.c :
              /\ e.row \in 0 .. (TpM - 1) /\ e.col \in 0 .. (tp.l.N - 1)
              /\ e.arow = e.row /\ e.bcol = e.col
        /\ tp.next = TpNumTiles =>
              {<<e.row, e.col>> : e \in tp.c} = (0 .. (TpM - 1)) \X (0 .. (tp.l.N - 1))

\* C18 witness: a finished launch of the non-persistent kernel on a rotated
\* rank with both M and N ragged, whose last program loaded a wrapped row.
C18_Witness ==
    /\ tp.l.k = "non_persistent" /\ tp.next = TpNumTiles /\ tp.l.rank > 0
    /\ TpM % tp.l.BM # 0 /\ tp.l.N % tp.l.BN # 0
    /\ tp.c # {}
    /\ \E row \in tp.cur.loads : row \notin tp.cur.stores

\* C20: in the non-persistent kernel and in both branches of the persistent
\* kernel's swizzle, on every rank, the rank-aware rotation maps the row-tile
\* indices [0, num_pid_m) one-to-one onto [0, num_pid_m): every rotated index
\* is in range, no two row tiles are rotated to the same index, and a
\* finished launch has reached every index.
C20_RotationBijection ==
    /\ \A p \in tp.rot : p[2] \in 0 .. (TpNumPidM - 1)
    /\ \A p \in tp.rot, q \in tp.rot : p[2] = q[2] => p[1] = q[1]
    /\ tp.next = TpNumTiles => {p[2] : p \in tp.rot} = 0 .. (TpNumPidM - 1)

\* C21: on every rank, in work-item order, no tile whose rows lie in the
\* caller's own shard comes after a tile that needs a remote shard, and the
\* first work item waits only on the caller's own flag slot.
C21_OwnShardFirst ==
    /\ OwnShardTile => ~tp.late
    /\ tp.next = 1 => tp.cur.slots = {tp.l.rank}

(***************************************************************************)
(* SpecLoop: one launch of kernel_consumer_gemm_persistent, its units      *)
(* interleaved, one loop iteration per step.  lp.unit[p] is the loop state *)
(* of unit p (iterations done, tile_id, ki, the K-slices in the            *)
(* accumulator since it was last zeroed); lp.stores records every store.   *)
(***************************************************************************)
MaxLoopSMs == 3
MaxLoopTiles == 5
MaxKTiles == 3

\* ki = tl.where(ki == k_tiles - 1, 0, ki + 1)
NextKi(ki, k_tiles) == IF ki = k_tiles - 1 THEN 0 ELSE ki + 1

\* the units of the launch: grid = min(NUM_SMS, num_tiles)
LoopUnits == 0 .. (Min(lp.NUM_SMS, lp.num_tiles) - 1)

\* a unit before its first iteration: tile_id = start_pid - NUM_SMS, ki = -1,
\* accumulator zeroed
LoopStart(start_pid, NUM_SMS) ==
    [n |-> 0, tile_id |-> start_pid - NUM_SMS, ki |-> -1, acc |-> <<>>, ev |-> <<>>]

InitLoop ==
    /\ cfg = [internode |-> FALSE, persistent |-> TRUE, serial |-> FALSE, shape |-> CHOOSE sh \in Shapes : TRUE]
    /\ ProtoInit
    /\ tp = NoTp
    /\ cc = NoCtx
    /\ \E sms \in 1 .. MaxLoopSMs, nt \in 1 .. MaxLoopTiles, kt \in 1 .. MaxKTiles :
          lp = [NUM_SMS |-> sms, num_tiles |-> nt, k_tiles |-> kt,
                unit |-> [p \in 0 .. (Min(sms, nt) - 1) |-> LoopStart(p, sms)],
                stores |-> {}]

\* a kernel that waits in every iteration
NewTileAlways(ki) == TRUE

\* "if ki == 0": the iteration enters a new tile, derives its rank range and
\* waits on it
NewTile(ki) == ki = 0

\* one iteration of "for _ in range(0, k_tiles * tiles_per_SM)" on unit p;
\* ev lists, for the tile the unit is in, the waits and the K-slice loads in
\* the order the iteration issues them
LoopIteration(p) ==
    LET u == lp.unit[p]
        ki == NextKi(u.ki, lp.k_tiles)
        tile_id == IF ki = 0 THEN u.tile_id + lp.NUM_SMS ELSE u.tile_id
        acc == Append(u.acc, ki)
        waited == IF NewTile(ki) THEN Append(u.ev, <<"wait", tile_id>>) ELSE u.ev
        ev == Append(waited, <<"load", ki>>)
        last == ki = lp.k_tiles - 1
    IN  /\ u.n < lp.k_tiles * TilesPerSM(p, lp.num_tiles, lp.NUM_SMS)
        /\ lp' = [lp EXCEPT
                    !.unit[p] = [n |-> u.n + 1, tile_id |-> tile_id, ki |-> ki,
                                 acc |-> IF last THEN <<>> ELSE acc,
                                 ev |-> IF last THEN <<>> ELSE ev],
                    !.stores = IF last
                               THEN @ \cup {[unit |-> p, n |-> u.n, tile_id |-> tile_id,
                                             acc |-> acc, ev |-> ev]}
                               ELSE @]
        /\ UNCHANGED <<protoVars, tp, cc>>

NextLoop == \E p \in LoopUnits : LoopIteration(p)

SpecLoop == InitLoop /\ [][NextLoop]_vars

\* every unit has run its loop to the end
LoopDone ==
    \A p \in LoopUnits : lp.unit[p].n = lp.k_tiles * TilesPerSM(p, lp.num_tiles, lp.NUM_SMS)

\* the K-slices 0 .. k_tiles-1 in order
AllSlices(k_tiles) == [i \in 1 .. k_tiles |-> i - 1]

\* C5: in the persistent kernel launched on min(NUM_SMS, num_tiles) units,
\* unit p visits the tile ids p, p+NUM_SMS, ... below num_tiles; every store
\* is of a tile accumulated from exactly the K-slices 0 .. k_tiles-1 since
\* the accumulator was zeroed; no tile id is stored twice; and when all
\* units are done every tile id in [0, num_tiles) has been stored once.
C5_PersistentLoopCoversTiles ==
    /\ \A s \in lp.stores :
          /\ s.tile_id \in 0 .. (lp.num_tiles - 1)
          /\ s.tile_id % lp.NUM_SMS = s.unit
          /\ s.acc = AllSlices(lp.k_tiles)
    /\ \A s1 \in lp.stores, s2 \in lp.stores : s1.tile_id = s2.tile_id => s1 = s2
    /\ \A p \in LoopUnits :
          lp.unit[p].acc = [i \in 1 .. Len(lp.unit[p].acc) |-> i - 1]
    /\ LoopDone => {s.tile_id : s \in lp.stores} = 0 .. (lp.num_tiles - 1)

\* C5 witness: a finished launch with more tiles than units, a tile count not
\* divisible by the unit count, and several K-slices per tile.
C5_Witness ==
    /\ lp.num_tiles > lp.NUM_SMS /\ lp.NUM_SMS > 1
    /\ lp.num_tiles % lp.NUM_SMS # 0
    /\ lp.k_tiles > 1
    /\ LoopDone
    /\ Cardinality(lp.stores) = lp.num_tiles

\* the events of a tile in the order claimed: one wait for the tile, then the
\* loads of the K-slices 0 .. n-1
WaitThenLoads(tile_id, n) ==
    [i \in 1 .. (n + 1) |-> IF i = 1 THEN <<"wait", tile_id>> ELSE <<"load", i - 2>>]

\* C23: in the persistent kernel the readiness wait is issued exactly once
\* per output tile, in the iteration where ki is 0 and before the tile's
\* first K-slice load; no K-slice is loaded before the tile's wait and no
\* wait is issued in the other iterations.
C23_WaitOncePerTile ==
    /\ \A s \in lp.stores : s.ev = WaitThenLoads(s.tile_id, lp.k_tiles)
    /\ \A p \in LoopUnits :
          lp.unit[p].ev # <<>> =>
              lp.unit[p].ev = WaitThenLoads(lp.unit[p].tile_id, Len(lp.unit[p].ev) - 1)

\* C23 witness: a unit has stored one tile of several K-slices and is past
\* the first K-slice of its next tile.
C23_Witness ==
    \E p \in LoopUnits :
        /\ lp.k_tiles > 2
        /\ \E s \in lp.stores : s.unit = p
        /\ Len(lp.unit[p].ev) = 3

(***************************************************************************)
(* SpecCreate: construction of a context on one rank and its use by        *)
(* invocations.                                                            *)
(***************************************************************************)
MaxWorld == 4
MaxLocalRanks == 4
MaxSignalTarget == 2
MaxSlabRows == 2
MaxShardRows == 2
MaxDeviceSMs == 2
MaxLaunchTiles == 2

\* the asserts of the two create functions: inner dimensions and dtypes agree
CreateAccepts(kind) == kind \notin {"inner_mismatch", "dtype_mismatch"}

\* get_auto_all_gather_method(num_local_ranks, num_ranks): the algorithms the
\* automatic selection can settle on for a layout
AutoAllGatherMethods(num_local_ranks, num_ranks) ==
    IF num_local_ranks = num_ranks
    THEN {"intra_node_copy", "full_mesh_pull"}
    ELSE {"hierarchical"}

\* create_ag_gemm_intra_node_context
CreateIntraNodeContext(kind, rank, num_ranks, max_M, autotune) ==
    /\ cc.st = "none"
    /\ \E m \in AutoAllGatherMethods(num_ranks, num_ranks) :
          cc' = IF CreateAccepts(kind)
                THEN [st |-> "created", internode |-> FALSE, rank |-> rank, num_ranks |-> num_ranks,
                      num_local_ranks |-> num_ranks, local_rank |-> rank,
                      phase |-> InitialPhase, used |-> 0, all_gather_method |-> m,
                      launch |-> NoLaunch, max_M |-> max_M, autotune |-> autotune]
                ELSE [cc EXCEPT !.st = "failed"]
    /\ UNCHANGED <<protoVars, tp, lp>>

\* create_ag_gemm_inter_node_context
CreateInterNodeContext(kind, rank, num_ranks, num_local_ranks, max_M, autotune) ==
    /\ cc.st = "none"
    /\ \E m \in AutoAllGatherMethods(num_local_ranks, num_ranks) :
          cc' = IF CreateAccepts(kind)
                THEN [st |-> "created", internode |-> TRUE, rank |-> rank, num_ranks |-> num_ranks,
                      num_local_ranks |-> num_local_ranks, local_rank |-> rank % num_local_ranks,
                      phase |-> InitialPhase, used |-> 0, all_gather_method |-> m,
                      launch |-> NoLaunch, max_M |-> max_M, autotune |-> autotune]
                ELSE [cc EXCEPT !.st = "failed"]
    /\ UNCHANGED <<protoVars, tp, lp>>

\* kernel_consumer_gemm_persistent: nnodes = num_ranks // LOCAL_WORLD_SIZE
\* and the branch of "swizzle m" it selects
KernelNNodes(num_ranks, LWS) == num_ranks \div LWS

PersistentBranch(num_ranks, LWS) ==
    IF KernelNNodes(num_ranks, LWS) = 1 THEN "single_tier" ELSE "hierarchical"

\* the GEMM launch of ag_gemm_intra_node: the persistent op is given
\* ctx.rank and indexes the slabs with it, and calls the full-mesh pull; the
\* non-persistent op indexes with rank % num_local_ranks and hands
\* ctx.all_gather_method to the transport.  Neither passes LOCAL_WORLD_SIZE
\* to the kernel.
IntraNodeGemmLaunch(persistent) ==
    IF persistent
    THEN [kernel |-> "persistent",
          branch |-> PersistentBranch(cc.num_ranks, LOCAL_WORLD_SIZE),
          nnodes |-> KernelNNodes(cc.num_ranks, LOCAL_WORLD_SIZE), lws |-> LOCAL_WORLD_SIZE,
          pub |-> cc.rank, gemm |-> cc.rank, method |-> "full_mesh_pull",
          own_flag |-> PublishFlag(cc.rank, cc.rank), ready_value |-> DEFAULT_READY_VALUE]
    ELSE [kernel |-> "non_persistent", branch |-> "rotate", nnodes |-> 0, lws |-> 0,
          pub |-> cc.rank, gemm |-> cc.rank % cc.num_local_ranks,
          method |-> cc.all_gather_method,
          own_flag |-> PublishFlag(cc.rank, cc.rank), ready_value |-> READY]

\* what an invocation with a local shard of a.shape[0] rows does with the
\* slab of max_M rows: the publish copy stores rows up to (not including)
\* rank * a.shape[0] + a.shape[0], and the kernel is given M and the view
\* workspace[:M], which has min(M, max_M) rows
SlabUse(shard_rows) ==
    [M |-> shard_rows * cc.num_ranks,
     view_rows |-> Min(shard_rows * cc.num_ranks, cc.max_M),
     copy_end |-> cc.rank * shard_rows + shard_rows]

\* a record with the fields of both, those of b taking precedence
Merge(a, b) == [f \in DOMAIN a \cup DOMAIN b |-> IF f \in DOMAIN b THEN b[f] ELSE a[f]]

\* the grid of a launch of the persistent kernel: min(NUM_SMS, num_tiles)
\* programs, with NUM_SMS handed to the kernel
PersistentGrid(NUM_SMS, num_tiles) ==
    [named |-> "persistent", NUM_SMS |-> NUM_SMS, units |-> Min(NUM_SMS, num_tiles)]

\* the grid of a launch of the non-persistent kernel: one program per tile
NonPersistentGrid(num_tiles) ==
    [named |-> "non_persistent", NUM_SMS |-> 0, units |-> num_tiles]

\* ag_gemm_intra_node_persistent_op: NUM_SMS is the device's
\* multi_processor_count, with and without autotune
IntraNodeGrid(persistent, sms, num_tiles) ==
    IF persistent THEN PersistentGrid(sms, num_tiles) ELSE NonPersistentGrid(num_tiles)

\* ag_gemm_inter_node_persistent_op: n_nodes = num_ranks // local_world_size,
\* num_ag_sms = n_nodes - 1 (copy_engine_dispatch is True in ag_gemm_inter_node),
\* num_gemm_sms = multi_processor_count - num_ag_sms
NumGemmSMs(num_ranks, local_world_size, sms) == sms - ((num_ranks \div local_world_size) - 1)

InterNodeGrid(persistent, local_world_size, sms, num_tiles) ==
    IF persistent
    THEN PersistentGrid(NumGemmSMs(cc.num_ranks, local_world_size, sms), num_tiles)
    ELSE NonPersistentGrid(num_tiles)

IntraNodeLaunch(persistent, shard_rows, sms, num_tiles) ==
    Merge(Merge(IntraNodeGemmLaunch(persistent), SlabUse(shard_rows)),
          IntraNodeGrid(persistent, sms, num_tiles))

\* the GEMM launch of ag_gemm_inter_node: the publish step uses
\* ctx.local_rank; the persistent op indexes with rank % local_world_size
\* (its argument) and calls inter_node_allgather without an
\* all_gather_method; the non-persistent op indexes with
\* rank % ctx.num_local_ranks and hands ctx.all_gather_method on.  The
\* publish step raises the own slot with set_signal(..., 1, ...); the
\* persistent kernel polls for ready_value = signal_target, the
\* non-persistent one for 1.
InterNodeGemmLaunch(persistent, local_world_size, signal_target) ==
    IF persistent
    THEN [kernel |-> "persistent",
          branch |-> PersistentBranch(cc.num_ranks, LOCAL_WORLD_SIZE),
          nnodes |-> KernelNNodes(cc.num_ranks, LOCAL_WORLD_SIZE), lws |-> LOCAL_WORLD_SIZE,
          pub |-> cc.local_rank, gemm |-> cc.rank % local_world_size, method |-> "unset",
          own_flag |-> SET_SIGNAL_VALUE, ready_value |-> signal_target]
    ELSE [kernel |-> "non_persistent", branch |-> "rotate", nnodes |-> 0, lws |-> 0,
          pub |-> cc.local_rank, gemm |-> cc.rank % cc.num_local_ranks,
          method |-> cc.all_gather_method,
          own_flag |-> SET_SIGNAL_VALUE, ready_value |-> READY]

InterNodeLaunch(persistent, local_world_size, signal_target, shard_rows, sms, num_tiles) ==
    Merge(Merge(InterNodeGemmLaunch(persistent, local_world_size, signal_target), SlabUse(shard_rows)),
          InterNodeGrid(persistent, local_world_size, sms, num_tiles))

\* the values of the local_world_size argument of ag_gemm_inter_node (8 is
\* its default); ag_gemm_intra_node has no such argument
LocalWorldSizes == (1 .. MaxLocalRanks) \cup {LOCAL_WORLD_SIZE}

\* the values of the signal_target argument of ag_gemm_inter_node (1 is its
\* default); ag_gemm_intra_node has no such argument
SignalTargets == 1 .. MaxSignalTarget

\* ag_gemm_intra_node / ag_gemm_inter_node on the context: the publish step
\* is launched with ctx.phase, ctx.phase is advanced and the GEMM is launched
\* (local_world_size and signal_target reach the inter-node persistent op
\* only; elsewhere they are left at their defaults)
UseContext(persistent, local_world_size, signal_target, shard_rows, sms, num_tiles) ==
    /\ cc.st = "created"
    /\ cc.used < MaxCalls
    /\ (~cc.internode \/ ~persistent) => (local_world_size = LOCAL_WORLD_SIZE /\ signal_target = 1)
    /\ cc' = [cc EXCEPT !.phase = NextPhase(@), !.used = @ + 1,
                        !.launch = IF cc.internode
                                   THEN InterNodeLaunch(persistent, local_world_size, signal_target, shard_rows,
                                                        sms, num_tiles)
                                   ELSE IntraNodeLaunch(persistent, shard_rows, sms, num_tiles)]
    /\ UNCHANGED <<protoVars, tp, lp>>

\* the launch of gemm_persistent (named_persistent) or gemm_non_persistent
\* on a gathered A, polling ctx.fake_barrier_tensor (all ones) for 1.
\* gemm_persistent launches the persistent kernel on min(NUM_SMS, num_tiles)
\* programs with NUM_SMS = multi_processor_count; gemm_non_persistent
\* launches the non-persistent kernel on num_tiles programs, and with
\* ctx.autotune the autotuned persistent kernel on the same grid with NUM_SMS = 0
StandaloneLaunch(named_persistent, sms, num_tiles) ==
    LET base == [NoLaunch EXCEPT !.own_flag = 1, !.ready_value = READY]
    IN  IF named_persistent
        THEN Merge(Merge(base, [kernel |-> "persistent",
                                branch |-> PersistentBranch(cc.num_ranks, LOCAL_WORLD_SIZE),
                                nnodes |-> KernelNNodes(cc.num_ranks, LOCAL_WORLD_SIZE),
                                lws |-> LOCAL_WORLD_SIZE, ready_value |-> DEFAULT_READY_VALUE]),
                   PersistentGrid(sms, num_tiles))
        ELSE IF cc.autotune
        THEN Merge(Merge(base, [kernel |-> "persistent",
                                branch |-> PersistentBranch(cc.num_ranks, LOCAL_WORLD_SIZE),
                                nnodes |-> KernelNNodes(cc.num_ranks, LOCAL_WORLD_SIZE),
                                lws |-> LOCAL_WORLD_SIZE, ready_value |-> DEFAULT_READY_VALUE]),
                   [named |-> "non_persistent", NUM_SMS |-> 0, units |-> num_tiles])
        ELSE Merge(Merge(base, [kernel |-> "non_persistent", branch |-> "rotate"]),
                   NonPersistentGrid(num_tiles))

\* gemm_persistent(a, b, ctx) / gemm_non_persistent(a, b, ctx)
StandaloneGemm(named_persistent, sms, num_tiles) ==
    /\ cc.st = "created"
    /\ cc' = [cc EXCEPT !.launch = StandaloneLaunch(named_persistent, sms, num_tiles)]
    /\ UNCHANGED <<protoVars, tp, lp>>

\* AllGatherGEMMTensorParallelContext.update: rank, num_ranks and
\* num_local_ranks are overwritten; local_rank, phase and all_gather_method
\* are not among the fields it assigns.  The context stays bound to its rank
\* and rank count; num_local_ranks is an argument with default 8.
Update(rank, num_ranks, num_local_ranks, autotune) ==
    /\ cc.st = "created"
    /\ cc' = [cc EXCEPT !.rank = rank, !.num_ranks = num_ranks,
                        !.num_local_ranks = num_local_ranks, !.autotune = autotune]
    /\ UNCHANGED <<protoVars, tp, lp>>

InitCreate ==
    /\ cfg = [internode |-> TRUE, persistent |-> TRUE, serial |-> FALSE, shape |-> CHOOSE sh \in Shapes : TRUE]
    /\ ProtoInit
    /\ tp = NoTp
    /\ lp = NoLp
    /\ cc = NoCtx

NextCreate ==
    \/ \E kind \in InputKinds, num_ranks \in 1 .. MaxWorld, max_M \in 1 .. MaxSlabRows,
          autotune \in BOOLEAN :
          \E rank \in 0 .. (num_ranks - 1) :
              CreateIntraNodeContext(kind, rank, num_ranks, max_M, autotune)
    \/ \E kind \in InputKinds, num_ranks \in 1 .. MaxWorld, nlr \in 1 .. MaxLocalRanks,
          max_M \in 1 .. MaxSlabRows, autotune \in BOOLEAN :
          \E rank \in 0 .. (num_ranks - 1) :
              CreateInterNodeContext(kind, rank, num_ranks, nlr, max_M, autotune)
    \/ \E persistent \in BOOLEAN, lws \in LocalWorldSizes, signal_target \in SignalTargets,
          shard_rows \in 1 .. MaxShardRows, sms \in 1 .. MaxDeviceSMs,
          num_tiles \in 1 .. MaxLaunchTiles :
          UseContext(persistent, lws, signal_target, shard_rows, sms, num_tiles)
    \/ \E named_persistent \in BOOLEAN, sms \in 1 .. MaxDeviceSMs, num_tiles \in 1 .. MaxLaunchTiles :
          StandaloneGemm(named_persistent, sms, num_tiles)
    \/ \E nlr \in LocalWorldSizes, autotune \in BOOLEAN : Update(cc.rank, cc.num_ranks, nlr, autotune)

SpecCreate == InitCreate /\ [][NextCreate]_vars

\* C10: no inter-node context whose total rank count is not a multiple of its
\* ranks-per-node is ever returned by context construction or used by an
\* invocation.
C10_LayoutCheckedAtCreation ==
    (cc.st = "created" /\ cc.internode) => cc.num_ranks % cc.num_local_ranks = 0

\* the invocation runs on one node: the ranks of the context are all local
SingleNode == cc.num_local_ranks = cc.num_ranks

\* C22: the persistent kernel applies the single-tier rotation in every
\* invocation whose ranks are all on one node, whatever their number, and
\* applies the hierarchical rotation only in multi-node invocations, with a
\* ranks-per-node equal to the invocation's and a node count of at least 1.
C22_SwizzleMatchesTopology ==
    cc.launch.kernel = "persistent" =>
        /\ SingleNode => cc.launch.branch = "single_tier"
        /\ cc.launch.branch = "hierarchical" =>
              /\ ~SingleNode
              /\ cc.launch.lws = cc.num_local_ranks
              /\ cc.launch.nnodes >= 1

\* C30: in every invocation the slab and flag buffer the publish step writes
\* are the ones the GEMM kernel of that invocation reads and polls: the index
\* used to publish equals the index used to consume, in the inter-node path
\* for every local_world_size argument and every num_local_ranks of the context.
C30_PublishAndConsumeSameSlab ==
    cc.launch.kernel # "none" => cc.launch.pub = cc.launch.gemm

\* C28: the all-gather algorithm stored in the context at construction is
\* changed neither by an invocation nor by update(), and every invocation,
\* persistent or not, hands that stored choice to its transport.
C28_StoredMethodUsed ==
    [][/\ cc.st = "created" => cc'.all_gather_method = cc.all_gather_method
       /\ cc'.used = cc.used + 1 => cc'.launch.method = cc.all_gather_method]_vars

\* C31: in every invocation the value the publish step raises in the
\* caller's own slot is the value the GEMM kernel of that invocation polls
\* for, so the wait on the own slot resolves; in the inter-node persistent
\* path this holds for every signal_target.
C31_OwnFlagReachesReadyValue ==
    cc.launch.kernel # "none" => cc.launch.own_flag = cc.launch.ready_value

\* C32: in every context state, after construction by either create
\* function and after any call of update(), local_rank = rank mod
\* num_local_ranks.
C32_LocalRankInvariant ==
    cc.st = "created" => cc.local_rank = cc.rank % cc.num_local_ranks

\* C34: in every accepted invocation the gathered row count M = M_per_rank *
\* num_ranks does not exceed the max_M rows of the slab: the publish copy
\* stores no row at or beyond max_M and the view workspace[:M] handed to the
\* GEMM has exactly M rows.
C34_WorkspaceCapacity ==
    cc.launch.kernel # "none" =>
        /\ cc.launch.M <= cc.max_M
        /\ cc.launch.copy_end <= cc.max_M
        /\ cc.launch.view_rows = cc.launch.M

\* C35: every launch of the persistent kernel made by a function of the
\* file, with or without autotune, has NUM_SMS >= 1 and at most NUM_SMS
\* units, and every function launches the kernel variant it is named for.
C35_PersistentLaunchWellFormed ==
    /\ cc.launch.kernel = "persistent" =>
          /\ cc.launch.NUM_SMS >= 1
          /\ cc.launch.units <= cc.launch.NUM_SMS
    /\ cc.launch.kernel # "none" => cc.launch.kernel = cc.launch.named

(***************************************************************************)
(* SpecConstruct: context construction on every rank, up to the start of   *)
(* the first invocation.  The symmetric buffers come out of the allocator  *)
(* with arbitrary contents.                                                *)
(***************************************************************************)

CreatePcs == {"c_alloc", "c_fill_comm", "c_fill_flag", "c_barrier", "c_barrier_w"}

Zeros == [s \in Ranks |-> 0]

\* nvshmem_create_tensor_list_intra_node / nvshmem_create_tensor: the rank's
\* flag buffer and its part of the sync buffer are allocated, not initialised
CreateAlloc(r) ==
    /\ pc[r] = "c_alloc"
    /\ \E g \in [Ranks -> 0 .. UBMax], h \in [Ranks -> 0 .. UBMax] :
          /\ sync' = [sync EXCEPT ![r] = g]
          /\ flag' = [flag EXCEPT ![r] = h]
    /\ pc' = [pc EXCEPT ![r] = "c_fill_comm"]
    /\ UNCHANGED <<cfg, phase, calls, kinds, input, seen, blk, nvb, ws, agpos, gemm, out, tp, lp, cc>>

\* comm_buf.fill_(0)
CreateFillCommBuf(r) ==
    /\ pc[r] = "c_fill_comm"
    /\ sync' = [sync EXCEPT ![r] = Zeros]
    /\ pc' = [pc EXCEPT ![r] = "c_fill_flag"]
    /\ UNCHANGED <<cfg, phase, calls, kinds, input, seen, blk, nvb, flag, ws, agpos, gemm, out, tp, lp, cc>>

\* barriers[rank].fill_(0) / barriers[local_rank].fill_(0)
CreateFillBarriers(r) ==
    /\ pc[r] = "c_fill_flag"
    /\ flag' = [flag EXCEPT ![r] = Zeros]
    /\ pc' = [pc EXCEPT ![r] = "c_barrier"]
    /\ UNCHANGED <<cfg, phase, calls, kinds, input, seen, blk, sync, nvb, ws, agpos, gemm, out, tp, lp, cc>>

\* pynvshmem.nvshmemx_barrier_all_on_stream(current_stream.cuda_stream)
CreateBarrierArrive(r) ==
    /\ pc[r] = "c_barrier"
    /\ nvb' = [nvb EXCEPT ![r] = @ + 1]
    /\ pc' = [pc EXCEPT ![r] = "c_barrier_w"]
    /\ UNCHANGED <<cfg, phase, calls, kinds, input, seen, blk, sync, flag, ws, agpos, gemm, out, tp, lp, cc>>

\* a construction that returns without waiting for the barrier
CreateReturnNoBarrier(r) ==
    /\ pc[r] = "c_barrier_w"
    /\ pc' = [pc EXCEPT ![r] = "idle"]
    /\ UNCHANGED <<cfg, phase, calls, kinds, input, seen, blk, sync, nvb, flag, ws, agpos, gemm, out, tp, lp, cc>>

\* torch.cuda.synchronize(): the stream has passed the barrier; the context
\* object is built and returned
CreateReturn(r) ==
    /\ pc[r] = "c_barrier_w"
    /\ \A p \in Ranks : nvb[p] >= nvb[r]
    /\ pc' = [pc EXCEPT ![r] = "idle"]
    /\ UNCHANGED <<cfg, phase, calls, kinds, input, seen, blk, sync, nvb, flag, ws, agpos, gemm, out, tp, lp, cc>>

InitConstruct ==
    /\ cfg \in Configs
    /\ phase = [r \in Ranks |-> InitialPhase]
    /\ calls = [r \in Ranks |-> 0]
    /\ kinds = [n \in 1 .. MaxCalls |-> "unset"]
    /\ input = [r \in Ranks |-> "ok"]
    /\ pc = [r \in Ranks |-> "c_alloc"]
    /\ seen = [r \in Ranks |-> {}]
    /\ blk = [r \in Ranks |-> [b \in CopyBlocks |-> "idle"]]
    /\ sync = [r \in Ranks |-> Zeros]
    /\ nvb = [r \in Ranks |-> 0]
    /\ flag = [r \in Ranks |-> Zeros]
    /\ ws = [r \in Ranks |-> [s \in Ranks |-> [b \in CopyBlocks |-> 0]]]
    /\ agpos = [r \in Ranks |-> AgEnd]
    /\ gemm = [r \in Ranks |-> [u \in Units |-> IdleUnit]]
    /\ out = [r \in Ranks |-> [t \in OutTiles |-> {}]]
    /\ tp = NoTp
    /\ lp = NoLp
    /\ cc = NoCtx

NextConstruct ==
    \/ \E r \in Ranks : CreateAlloc(r)
    \/ \E r \in Ranks : CreateFillCommBuf(r)
    \/ \E r \in Ranks : CreateFillBarriers(r)
    \/ \E r \in Ranks : CreateBarrierArrive(r)
    \/ \E r \in Ranks : CreateReturn(r)
    \/ \E r \in Ranks, k \in InputKinds : Invoke(r, k)
    \/ \E r \in Ranks : Handshake1Arrive(r)
    \/ \E r \in Ranks : NvBarrierArrive(r)

SpecConstruct == InitConstruct /\ [][NextConstruct]_vars

\* C29: no rank has returned from context construction, and so none has
\* started its first invocation, unless every rank has allocated its buffers
\* and zeroed its flag buffer and its part of the sync buffer: every rank
\* still in construction is then past its fills, its flag buffer is all
\* zero, and its sync slots are zero but for those a peer's first handshake
\* has set.
C29_ConstructionRendezvous ==
    \A r \in Ranks :
        pc[r] \notin CreatePcs =>
            \A p \in Ranks :
                /\ pc[p] \notin {"c_alloc", "c_fill_comm", "c_fill_flag", "c_barrier"}
                /\ pc[p] = "c_barrier_w" =>
                      /\ flag[p] = Zeros
                      /\ \A q \in Ranks : pc[q] # "h1w" => sync[p][q] = 0

\* C29 witness: a rank has started its first invocation while a peer, which
\* has zeroed its buffers and reached the barrier, has not returned yet.
C29_Witness ==
    \E r \in Ranks, p \in Ranks :
        calls[r] = 1 /\ pc[r] \in {"h1w", "n1w"} /\ pc[p] = "c_barrier_w"

====
